---- MODULE Spec2Model ----
(***************************************************************************)
(* Terminus: the Terminal session of terminus/terminal.py.                 *)
(*                                                                         *)
(* The model covers the class-level registry Terminal._terminals, the      *)
(* life cycle of a Terminal (constructor, open, close, cleanup, __del__),  *)
(* and the two background loops started by _start_rendering (reader and    *)
(* renderer) with the lock, the buffer data[0] and the flag done[0] they   *)
(* share.  The pty process, the pyte screen/stream and the Sublime view    *)
(* are collaborators; only the part of their behaviour that terminal.py    *)
(* relies on is modelled.                                                  *)
(***************************************************************************)
EXTENDS Integers, Sequences, FiniteSets, TLC

\* ------------------------------------------------------------------ bounds
\* Number of chunks a process can deliver to process.read() in one session.
MaxReads == 2
\* Number of Terminal objects that can be constructed.
MaxSessions == 2
\* Number of host views (surface identifiers).
MaxViews == 1

Sessions == 1..MaxSessions
Views == 1..MaxViews
\* The session whose loops are followed step by step in Spec.
PipeSessions == {1}

\* Python's None as the result of a registry lookup, as a missing tag and as
\* process.exitstatus of a process that has no exit code.
NoSession == 0
NoStatus == -1
None == "None"
\* from_tag raising AttributeError instead of returning.
AttributeError == -2

Tags == {"a", "b"}
PanelNames == {"", "panel"}
ExitCodes == {0, 1}

\* What one process.read() may deliver: plain text, a cursor show/hide
\* escape, or an inline-image directive (not requesting inline display, with
\* a payload base64 cannot decode, with a header get_image_size rejects, or
\* well formed).
Kinds == {"text", "toggle", "img_noinline", "img_badb64", "img_badhdr", "img_ok"}

\* The output of the processes followed in Spec.
PipeKinds == {"text", "img_badb64", "img_ok"}

\* Pixel metrics of a view: viewport extent, line height, em width.
Layouts == { [pw |-> 0, ph |-> 0, lh |-> 0, ew |-> 0],
             [pw |-> 27, ph |-> 18, lh |-> 18, ew |-> 9],
             [pw |-> 800, ph |-> 600, lh |-> 18, ew |-> 9] }

\* The pixel metrics view_size is called with: every extent up to MaxExtent
\* and the 800 x 600 viewport, line heights and em widths with 0 among them.
MaxExtent == 24
PixelWidths == 0..MaxExtent \cup {800}
PixelHeights == 0..MaxExtent \cup {600}
LineHeights == {0, 1, 7, 18}
EmWidths == {0, 1, 4, 9}
Metrics == [pw : PixelWidths, ph : PixelHeights, lh : LineHeights, ew : EmWidths]

\* The arguments image_resize is called with.
MaxCells == 3
ImgSizes == {<<640, 480>>, <<1, 1>>, <<2, 1>>, <<3, 4>>, <<10, 5>>}
Percents == {0, 50, 100, 150}
SizeArgs == [kind : {"absent"}, n : {0}] \cup [kind : {"cells"}, n : 0..MaxCells]
            \cup [kind : {"percent"}, n : Percents]
MaxWidths == {0, 3, 100, 10000}

\* ------------------------------------------------------------------- state
VARIABLES
    terminals,  \* Terminal._terminals: view id -> Terminal (NoSession: no key)
    obj,        \* the attributes of each Terminal object
    pty,        \* self.process of each Terminal
    screen,     \* self.screen of each Terminal
    thr,        \* the closure of _start_rendering: lock, data, done, both loops
    host,       \* the host views
    mainQ,      \* sublime.set_timeout: tasks waiting for the main thread
    log,        \* history of each session, read by the properties only
    calc        \* the last call of a module-level function: arguments, result

vars == <<terminals, obj, pty, screen, thr, host, mainQ, log, calc>>

\* ------------------------------------------------------------ pure helpers
RECURSIVE Flatten(_)
Flatten(ss) == IF ss = <<>> THEN <<>> ELSE Head(ss) \o Flatten(Tail(ss))

IsPrefix(a, b) == Len(a) <= Len(b) /\ SubSeq(b, 1, Len(a)) = a

\* view_size without the three columns it keeps free.
view_size_full_width(l) ==
    IF l.lh = 0 \/ l.ew = 0 THEN <<0, 0>>
    ELSE << IF l.ph \div l.lh < 1 THEN 1 ELSE l.ph \div l.lh,
            IF l.pw \div l.ew < 1 THEN 1 ELSE l.pw \div l.ew >>

\* view_size(view): (rows, columns) from the pixel metrics of the view.
view_size(l) ==
    IF l.lh = 0 \/ l.ew = 0 THEN <<0, 0>>
    ELSE LET nb_columns == (l.pw \div l.ew) - 3
             nb_rows == l.ph \div l.lh
         IN  << IF nb_rows < 1 THEN 1 ELSE nb_rows,
                IF nb_columns < 1 THEN 1 ELSE nb_columns >>

\* ------------------------------------------------------------ image_resize
\* A width or height argument: None, a string of digits (a number of
\* character cells) or a string ending with % (a share of the natural size).
Absent == [kind |-> "absent", n |-> 0]

\* The preserve_ratio argument, written as the Python value it is.
PreserveValues == {"1", "True", "'true'", "'1'", "2", "0", "''"}

\* preserve_ratio == 1 or preserve_ratio == "true" (True == 1 in Python)
PreservesRatio(p) == p \in {"1", "True", "'true'"}

\* The result standing for a call left by ZeroDivisionError.
ZeroDivisionError == <<-1, -1>>

\* int(x ** 0.5) for x = num / den: the largest h in lo..hi with h * h <= x.
RECURSIVE RootBetween(_, _, _, _)
RootBetween(lo, hi, num, den) ==
    IF lo = hi THEN lo
    ELSE LET mid == (lo + hi + 1) \div 2
         IN  IF mid * mid * den <= num
             THEN RootBetween(mid, hi, num, den)
             ELSE RootBetween(lo, mid - 1, num, den)

RECURSIVE RootAbove(_, _, _)
RootAbove(hi, num, den) ==
    IF hi * hi * den > num THEN hi ELSE RootAbove(2 * hi, num, den)

IntRoot(num, den) == RootBetween(0, RootAbove(1, num, den), num, den)

\* The first two if blocks: width or height from its argument.
SizeOf(arg, natural, em_width) ==
    IF arg.kind = "absent" THEN natural
    ELSE IF arg.kind = "cells" THEN arg.n * em_width
    ELSE (natural * arg.n) \div 100

\* The block of preserve_ratio: the same area with the ratio of the image.
WithImageRatio(size, img_size) ==
    LET area == size[1] * size[2]
        height == IntRoot(area * img_size[2], img_size[1])
    IN  IF height = 0 THEN ZeroDivisionError ELSE <<area \div height, height>>

\* image_resize that cuts the width at max_width and keeps the height.
image_resize_cut(img_size, width, height, em_width, max_width, preserve_ratio) ==
    LET asked == << SizeOf(width, img_size[1], em_width),
                    SizeOf(height, img_size[2], em_width) >>
        size == IF PreservesRatio(preserve_ratio)
                THEN WithImageRatio(asked, img_size) ELSE asked
    IN  IF size = ZeroDivisionError THEN size
        ELSE IF size[1] > max_width THEN <<max_width, size[2]>>
        ELSE size

\* image_resize(img_size, width, height, em_width, max_width, preserve_ratio):
\* (width, height) in pixels of the phantom of an image.
image_resize(img_size, width, height, em_width, max_width, preserve_ratio) ==
    LET asked == << SizeOf(width, img_size[1], em_width),
                    SizeOf(height, img_size[2], em_width) >>
        size == IF PreservesRatio(preserve_ratio)
                THEN WithImageRatio(asked, img_size) ELSE asked
    IN  IF size = ZeroDivisionError THEN size
        ELSE IF size[1] > max_width
        THEN <<max_width, (size[2] * max_width) \div size[1]>>
        ELSE size

\* Terminal.from_id(vid)
from_id(vid) == terminals[vid]

\* Terminal.from_tag(tag): the first registered Terminal carrying the tag.
\* A registered Terminal that was never opened has no attribute tag: the
\* comparison raises AttributeError.
RECURSIVE from_tag_scan(_, _)
from_tag_scan(tag, vid) ==
    IF vid > MaxViews THEN NoSession
    ELSE IF terminals[vid] = NoSession THEN from_tag_scan(tag, vid + 1)
    ELSE IF obj[terminals[vid]].tag = None /\ obj[terminals[vid]].life = "constructed"
         THEN AttributeError
    ELSE IF obj[terminals[vid]].tag = tag THEN terminals[vid]
    ELSE from_tag_scan(tag, vid + 1)

from_tag(tag) == from_tag_scan(tag, 1)

\* ------------------------------------------------------------------- Init
NoObj == [life |-> "absent", view |-> 0, tag |-> None, panel_name |-> "",
          image_count |-> 0, cached_cursor |-> <<0, 0>>,
          cached_cursor_is_hidden |-> TRUE]

NoPty == [state |-> "none", exitstatus |-> NoStatus, winsize |-> <<0, 0>>,
          left |-> 0, written |-> FALSE]

NoScreen == [lines |-> 0, columns |-> 0, dirty |-> FALSE,
             x |-> 0, y |-> 0, hidden |-> FALSE]

NoThr == [lock |-> "free", data |-> <<>>, done |-> FALSE, temp |-> <<>>,
          reader |-> "none", renderer |-> "none",
          attached_value |-> TRUE, attached_due |-> TRUE,
          resized_value |-> FALSE, resized_due |-> TRUE]

NoLog == [read |-> <<>>, appended |-> <<>>, fed |-> <<>>, eof |-> FALSE,
          access |-> {}, hostOps |-> {}, terminate |-> {},
          closed |-> FALSE, scheduled |-> 0, cleaned |-> FALSE,
          need |-> <<>>, renders |-> 0]

NewView(l) == [attached |-> TRUE, layout |-> l, read_only |-> FALSE,
               message |-> <<>>, removed |-> FALSE, phantoms |-> {}]

NoCalc == [fn |-> "none", done |-> FALSE]

\* No Terminal yet, one view of each layout considered.
InitTerminals(reads, layouts) ==
    /\ terminals = [v \in Views |-> NoSession]
    /\ obj = [s \in Sessions |-> NoObj]
    /\ pty = [s \in Sessions |-> [NoPty EXCEPT !.left = reads]]
    /\ screen = [s \in Sessions |-> NoScreen]
    /\ thr = [s \in Sessions |-> NoThr]
    /\ host \in [Views -> {NewView(l) : l \in layouts}]
    /\ mainQ = {}
    /\ log = [s \in Sessions |-> NoLog]

InitWith(reads, layouts) == InitTerminals(reads, layouts) /\ calc = NoCalc

LaidOut == [pw |-> 800, ph |-> 600, lh |-> 18, ew |-> 9]

Init == InitWith(MaxReads, {LaidOut})

\* --------------------------------------------------------- collaborators
\* process.terminate(force): a live process is signalled (SIGHUP, SIGINT, and
\* SIGKILL only with force); without force it may survive the signals.  A
\* process killed by a signal has no exit code.  A process that is not alive
\* is left as it is.
TerminateOutcomes(p, force) ==
    IF p.state # "alive" THEN {p}
    ELSE {[p EXCEPT !.state = "exited", !.exitstatus = NoStatus]}
         \cup (IF force THEN {} ELSE {p})

\* The terminus_render command: the screen is drawn into the view and its
\* dirty marks are cleared.
Rendered(sc) == [sc EXCEPT !.dirty = FALSE]

\* screen.index(): the cursor moves down one line, the screen scrolls when
\* the cursor is on the last line.
Index(sc) ==
    [sc EXCEPT !.y = IF sc.y + 1 < sc.lines THEN sc.y + 1 ELSE sc.y,
               !.dirty = TRUE]

\* screen.resize(lines, columns)
Resized(sc, size) ==
    [sc EXCEPT !.lines = size[1], !.columns = size[2], !.dirty = TRUE]

\* ------------------------------------------------------------ show_image
\* show_image(data, args) called by the stream on the thread `by` that feeds
\* it.  st carries what the call can change: the screen, image_count, the
\* phantoms of the view, the host operations issued, and whether an
\* exception left the call.
\* ShowImageCounted is show_image counting the image before it knows its
\* size.
ShowImageCounted(st, c, by) ==
    IF c.kind = "img_noinline" THEN st
    ELSE IF c.kind = "img_badb64" THEN [st EXCEPT !.raised = TRUE]
    ELSE IF c.kind = "img_badhdr" THEN [st EXCEPT !.image_count = st.image_count + 1]
    ELSE [st EXCEPT !.image_count = st.image_count + 1,
                    !.phantoms = st.phantoms \cup {st.image_count + 1},
                    !.ops = st.ops \cup {[op |-> "add_phantom", by |-> by]},
                    !.screen = Index(st.screen)]

ShowImage(st, c, by) ==
    IF c.kind = "img_noinline" THEN st
    ELSE IF c.kind = "img_badb64" THEN [st EXCEPT !.raised = TRUE]
    ELSE IF c.kind = "img_badhdr" THEN st
    ELSE [st EXCEPT !.image_count = st.image_count + 1,
                    !.phantoms = st.phantoms \cup {st.image_count + 1},
                    !.ops = st.ops \cup {[op |-> "add_phantom", by |-> by]},
                    !.screen = Index(st.screen)]

\* stream.feed of one chunk: text is drawn at the cursor, an escape shows or
\* hides the cursor, an image directive calls show_image.
FeedChunk(st, c, by) ==
    IF c.kind = "text"
    THEN [st EXCEPT !.screen.dirty = TRUE,
                    !.screen.x = IF st.screen.x + 1 < st.screen.columns
                                 THEN st.screen.x + 1 ELSE st.screen.x]
    ELSE IF c.kind = "toggle"
    THEN [st EXCEPT !.screen.hidden = ~st.screen.hidden]
    ELSE ShowImage(st, c, by)

\* stream.feed(data): the chunks in order; an exception ends the call.
RECURSIVE StreamFeed(_, _, _)
StreamFeed(st, d, by) ==
    IF d = <<>> \/ st.raised THEN st
    ELSE StreamFeed(FeedChunk(st, Head(d), by), Tail(d), by)

\* data[0] after feed_data has fed it.
NotCleared(d) == d
Cleared(d) == <<>>

\* One evaluation of a @responsive predicate: the probe runs when the period
\* has elapsed since its last run, otherwise the cached result is returned.
Responsive(due, cached, probe) == IF due THEN probe ELSE cached

\* view_is_attached(), the probe
ViewIsAttached(s) == host[obj[s].view].attached

\* was_resized(), the probe
WasResized(s) ==
    LET size == view_size(host[obj[s].view].layout)
    IN  screen[s].lines # size[1] \/ screen[s].columns # size[2]

Access(s, by, var) == [by |-> by, var |-> var, locked |-> thr[s].lock = by]
HostOp(op, by) == [op |-> op, by |-> by]

\* ------------------------------------------------- main thread: life cycle
\* Terminal(view): __init__
Construct(s, v) ==
    /\ obj[s].life = "absent"
    /\ obj' = [obj EXCEPT ![s] = [NoObj EXCEPT !.life = "constructed", !.view = v]]
    /\ terminals' = [terminals EXCEPT ![v] = s]
    /\ UNCHANGED <<pty, screen, thr, host, mainQ, log, calc>>

\* The dimensions open() gives the process and the screen.
OpenSize(l) == IF view_size(l) = <<1, 1>> THEN <<24, 80>> ELSE view_size(l)

\* open(cmd, ..., panel_name, tag), _start_rendering() included: the process
\* is spawned, the screen and the stream are created, both threads start.
Open(s, tag, panel_name) ==
    /\ obj[s].life = "constructed"
    /\ LET size == OpenSize(host[obj[s].view].layout)
       IN  /\ pty' = [pty EXCEPT ![s].state = "alive", ![s].winsize = size]
           /\ screen' = [screen EXCEPT ![s].lines = size[1], ![s].columns = size[2]]
    /\ obj' = [obj EXCEPT ![s].life = "opened", ![s].tag = tag,
                          ![s].panel_name = panel_name]
    /\ thr' = [thr EXCEPT ![s].reader = "read", ![s].renderer = "feed"]
    /\ log' = [log EXCEPT ![s].hostOps = @ \cup {HostOp("set_name", "main")}]
    /\ UNCHANGED <<terminals, host, mainQ, calc>>

\* The registry after close() of a Terminal on view vid.
Unregistered(reg, vid) == [reg EXCEPT ![vid] = NoSession]

\* close(), called by the host on the main thread.
Close(s) ==
    /\ obj[s].life = "opened"
    /\ terminals' = Unregistered(terminals, obj[s].view)
    /\ \E p \in TerminateOutcomes(pty[s], FALSE) : pty' = [pty EXCEPT ![s] = p]
    /\ log' = [log EXCEPT ![s].terminate = @ \cup {FALSE},
                          ![s].closed = TRUE]
    /\ UNCHANGED <<obj, screen, thr, host, mainQ, calc>>

\* close() of a Terminal that was never opened: the registry entry is
\* deleted, then self.process raises AttributeError.
CloseUnopened(s) ==
    /\ obj[s].life = "constructed"
    /\ terminals[obj[s].view] # NoSession
    /\ terminals' = Unregistered(terminals, obj[s].view)
    /\ UNCHANGED <<obj, pty, screen, thr, host, mainQ, log, calc>>

\* cleanup() closes the panel or the view when this holds.
ExitedAtAll(p) == p.exitstatus # NoStatus
ExitedCleanly(p) == p.exitstatus = 0

\* cleanup(), run by the main thread as the task the renderer scheduled.
Cleanup(s) ==
    /\ s \in mainQ
    /\ mainQ' = mainQ \ {s}
    /\ screen' = [screen EXCEPT ![s] = Rendered(@)]
    /\ terminals' = Unregistered(terminals, obj[s].view)
    /\ \E p \in TerminateOutcomes(pty[s], FALSE) :
         LET v == obj[s].view
             remove == ExitedCleanly(p) /\ host[v].attached
         IN  /\ pty' = [pty EXCEPT ![s] = p]
             /\ host' = [host EXCEPT ![v].message = <<p.exitstatus>>,
                                     ![v].read_only = TRUE,
                                     ![v].removed = @ \/ remove,
                                     ![v].attached = @ /\ ~remove]
             /\ log' = [log EXCEPT
                  ![s].terminate = @ \cup {FALSE},
                  ![s].closed = TRUE,
                  ![s].cleaned = TRUE,
                  ![s].hostOps = @ \cup
                      {HostOp("terminus_render", "main"), HostOp("append", "main"),
                       HostOp("set_read_only", "main")}
                      \cup (IF ~remove THEN {}
                            ELSE IF obj[s].panel_name # ""
                            THEN {HostOp("destroy_output_panel", "main")}
                            ELSE {HostOp("focus_view", "main"), HostOp("close", "main")})]
    /\ UNCHANGED <<obj, thr, calc>>

\* __del__, when nothing refers to the Terminal any more: it left the
\* registry, both threads returned and no task holds it.
Del(s) ==
    /\ obj[s].life = "opened"
    /\ terminals[obj[s].view] # s
    /\ thr[s].reader = "finished"
    /\ thr[s].renderer \in {"finished", "dead"}
    /\ s \notin mainQ
    /\ obj' = [obj EXCEPT ![s].life = "deleted"]
    /\ \E p \in TerminateOutcomes(pty[s], TRUE) : pty' = [pty EXCEPT ![s] = p]
    /\ log' = [log EXCEPT ![s].terminate = @ \cup {TRUE}]
    /\ UNCHANGED <<terminals, screen, thr, host, mainQ, calc>>

\* ------------------------------------------------------------ environment
\* The user closes the view or hides the panel of a Terminal.
Detach(v) ==
    /\ \E s \in Sessions : obj[s].view = v
    /\ host[v].attached
    /\ host' = [host EXCEPT ![v].attached = FALSE]
    /\ UNCHANGED <<terminals, obj, pty, screen, thr, mainQ, log, calc>>

\* The view is laid out anew.
Relayout(v, l) ==
    /\ host[v].layout # l
    /\ host' = [host EXCEPT ![v].layout = l]
    /\ UNCHANGED <<terminals, obj, pty, screen, thr, mainQ, log, calc>>

\* The process exits by itself.
ProcExit(s, code) ==
    /\ pty[s].state = "alive"
    /\ pty' = [pty EXCEPT ![s].state = "exited", ![s].exitstatus = code]
    /\ UNCHANGED <<terminals, obj, screen, thr, host, mainQ, log, calc>>

\* One second has passed since view_is_attached last ran its probe.
AttachedDue(s) ==
    /\ thr[s].renderer # "none"
    /\ ~thr[s].attached_due
    /\ thr' = [thr EXCEPT ![s].attached_due = TRUE]
    /\ UNCHANGED <<terminals, obj, pty, screen, host, mainQ, log, calc>>

\* One second has passed since was_resized last ran its probe.
ResizedDue(s) ==
    /\ thr[s].renderer # "none"
    /\ ~thr[s].resized_due
    /\ thr' = [thr EXCEPT ![s].resized_due = TRUE]
    /\ UNCHANGED <<terminals, obj, pty, screen, host, mainQ, log, calc>>

\* send_string that also draws what it sends on the screen.
send_string_echoed(s) ==
    /\ obj[s].life = "opened"
    /\ pty' = [pty EXCEPT ![s].written = TRUE]
    /\ screen' = [screen EXCEPT ![s] =
                    FeedChunk([screen |-> @], [kind |-> "text"], "main").screen]
    /\ UNCHANGED <<terminals, obj, thr, host, mainQ, log, calc>>

\* send_string(string), called by a command on the main thread: the string
\* is written to the process; the modes of the screen are only read.
send_string(s) ==
    /\ obj[s].life = "opened"
    /\ pty' = [pty EXCEPT ![s].written = TRUE]
    /\ UNCHANGED <<terminals, obj, screen, thr, host, mainQ, log, calc>>

\* send_key(*args): the key code, chosen by the modes of the screen, goes
\* through send_string.
send_key(s) == send_string(s)

\* The host calls the on_navigate callback registered with phantom k, passing
\* the href it navigated to: view.erase_phantoms("terminus_image#" + link).
callback(s, k, link) ==
    /\ obj[s].life = "opened"
    /\ k \in host[obj[s].view].phantoms
    /\ host' = [host EXCEPT ![obj[s].view].phantoms = @ \ {link}]
    /\ log' = [log EXCEPT ![s].hostOps = @ \cup {HostOp("erase_phantoms", "main")}]
    /\ UNCHANGED <<terminals, obj, pty, screen, thr, mainQ, calc>>

\* ----------------------------------------------------- module functions
\* The call view_size(view), on a view with the metrics calc.arg, returns.
ViewSizeCall ==
    /\ calc.fn = "view_size"
    /\ ~calc.done
    /\ calc' = [calc EXCEPT !.done = TRUE] @@ [res |-> view_size(calc.arg)]
    /\ UNCHANGED <<terminals, obj, pty, screen, thr, host, mainQ, log>>

\* The call image_resize(...) with the arguments calc.arg returns or raises.
ImageResizeCall ==
    /\ calc.fn = "image_resize"
    /\ ~calc.done
    /\ LET a == calc.arg
       IN  calc' = [calc EXCEPT !.done = TRUE] @@
                   [res |-> image_resize(a.img_size, a.width, a.height,
                                         a.em_width, a.max_width, a.preserve_ratio)]
    /\ UNCHANGED <<terminals, obj, pty, screen, thr, host, mainQ, log>>

\* ------------------------------------------------------------- the reader
\* temp = self.process.read(1024), returning output of the process
ReaderRead(s, k) ==
    /\ thr[s].reader = "read"
    /\ pty[s].state = "alive"
    /\ pty[s].left > 0
    /\ LET c == [n |-> Len(log[s].read) + 1, kind |-> k]
       IN  /\ thr' = [thr EXCEPT ![s].temp = <<c>>, ![s].reader = "lock"]
           /\ log' = [log EXCEPT ![s].read = Append(@, c)]
    /\ pty' = [pty EXCEPT ![s].left = @ - 1]
    /\ UNCHANGED <<terminals, obj, screen, host, mainQ, calc>>

\* self.process.read(1024) raising EOFError: break
ReaderEOF(s) ==
    /\ thr[s].reader = "read"
    /\ pty[s].state = "exited"
    /\ thr' = [thr EXCEPT ![s].reader = "set_done"]
    /\ log' = [log EXCEPT ![s].eof = TRUE]
    /\ UNCHANGED <<terminals, obj, pty, screen, host, mainQ, calc>>

\* with lock: (entry)
ReaderLock(s) ==
    /\ thr[s].reader = "lock"
    /\ thr[s].lock = "free"
    /\ thr' = [thr EXCEPT ![s].lock = "reader", ![s].reader = "append"]
    /\ UNCHANGED <<terminals, obj, pty, screen, host, mainQ, log, calc>>

\* data[0] += temp, and the exit of the with block
ReaderAppend(s) ==
    /\ thr[s].reader = "append"
    /\ thr' = [thr EXCEPT ![s].data = @ \o thr[s].temp, ![s].lock = "free",
                          ![s].reader = "check"]
    /\ log' = [log EXCEPT ![s].appended = @ \o thr[s].temp,
                          ![s].access = @ \cup {Access(s, "reader", "data")}]
    /\ UNCHANGED <<terminals, obj, pty, screen, host, mainQ, calc>>

\* if done[0] or not view_is_attached(): break
ReaderCheck(s) ==
    /\ thr[s].reader = "check"
    /\ log' = [log EXCEPT ![s].access = @ \cup {Access(s, "reader", "done")}]
    /\ IF thr[s].done
       THEN thr' = [thr EXCEPT ![s].reader = "set_done"]
       ELSE LET att == Responsive(thr[s].attached_due, thr[s].attached_value,
                                  ViewIsAttached(s))
            IN  thr' = [thr EXCEPT ![s].attached_value = att,
                                   ![s].attached_due = FALSE,
                                   ![s].reader = IF att THEN "read" ELSE "set_done"]
    /\ UNCHANGED <<terminals, obj, pty, screen, host, mainQ, calc>>

\* done[0] = True, after the loop
ReaderSetDone(s) ==
    /\ thr[s].reader = "set_done"
    /\ thr' = [thr EXCEPT ![s].done = TRUE, ![s].reader = "finished"]
    /\ log' = [log EXCEPT ![s].access = @ \cup {Access(s, "reader", "done")}]
    /\ UNCHANGED <<terminals, obj, pty, screen, host, mainQ, calc>>

\* ----------------------------------------------------------- the renderer
\* feed_data(): with lock: (entry), in the loop and after it
RendererLock(s) ==
    /\ thr[s].renderer \in {"feed", "flush"}
    /\ thr[s].lock = "free"
    /\ thr' = [thr EXCEPT ![s].lock = "renderer",
                          ![s].renderer = IF @ = "feed" THEN "feeding" ELSE "flushing"]
    /\ UNCHANGED <<terminals, obj, pty, screen, host, mainQ, log, calc>>

\* feed_data(): the body of the with block and its exit.  An exception of
\* stream.feed leaves the block (the lock is released) and ends the thread.
FeedData(s) ==
    /\ thr[s].renderer \in {"feeding", "flushing"}
    /\ LET v == obj[s].view
           next == IF thr[s].renderer = "feeding" THEN "resize" ELSE "set_done"
           st == StreamFeed([screen |-> screen[s],
                             image_count |-> obj[s].image_count,
                             phantoms |-> host[v].phantoms,
                             ops |-> {}, raised |-> FALSE],
                            thr[s].data, "renderer")
       IN  IF Len(thr[s].data) > 0
           THEN /\ screen' = [screen EXCEPT ![s] = st.screen]
                /\ obj' = [obj EXCEPT ![s].image_count = st.image_count]
                /\ host' = [host EXCEPT ![v].phantoms = st.phantoms]
                /\ thr' = [thr EXCEPT
                     ![s].lock = "free",
                     ![s].data = IF st.raised THEN @ ELSE Cleared(@),
                     ![s].renderer = IF st.raised THEN "dead" ELSE next]
                /\ log' = [log EXCEPT
                     ![s].fed = Append(@, thr[s].data),
                     ![s].hostOps = @ \cup st.ops,
                     ![s].access = @ \cup {Access(s, "renderer", "data")}]
           ELSE /\ thr' = [thr EXCEPT ![s].lock = "free", ![s].renderer = next]
                /\ log' = [log EXCEPT
                     ![s].access = @ \cup {Access(s, "renderer", "data")}]
                /\ UNCHANGED <<screen, obj, host>>
    /\ UNCHANGED <<terminals, pty, mainQ, calc>>

\* if was_resized(): self.handle_resize()
RendererResize(s) ==
    /\ thr[s].renderer = "resize"
    /\ LET res == Responsive(thr[s].resized_due, thr[s].resized_value, WasResized(s))
           size == view_size(host[obj[s].view].layout)
       IN  /\ thr' = [thr EXCEPT ![s].resized_value = res, ![s].resized_due = FALSE,
                                 ![s].renderer = "render"]
           /\ IF res
              THEN /\ pty' = [pty EXCEPT ![s].winsize = size]
                   /\ screen' = [screen EXCEPT ![s] = Resized(@, size)]
              ELSE UNCHANGED <<pty, screen>>
    /\ UNCHANGED <<terminals, obj, host, mainQ, log, calc>>

\* _need_to_render() that does not look at the hidden flag of the cursor.
NeedToRenderShown(s) ==
    \/ screen[s].dirty
    \/ screen[s].x # obj[s].cached_cursor[1]
    \/ screen[s].y # obj[s].cached_cursor[2]

\* _need_to_render(): the flag it returns
NeedToRender(s) ==
    \/ screen[s].dirty
    \/ screen[s].x # obj[s].cached_cursor[1]
    \/ screen[s].y # obj[s].cached_cursor[2]
    \/ screen[s].hidden # obj[s].cached_cursor_is_hidden

\* if self._need_to_render(): self.view.run_command("terminus_render")
RendererRender(s) ==
    /\ thr[s].renderer = "render"
    /\ thr' = [thr EXCEPT ![s].renderer = "check"]
    /\ IF NeedToRender(s)
       THEN /\ obj' = [obj EXCEPT
                 ![s].cached_cursor = <<screen[s].x, screen[s].y>>,
                 ![s].cached_cursor_is_hidden = screen[s].hidden]
            /\ screen' = [screen EXCEPT ![s] = Rendered(@)]
            /\ log' = [log EXCEPT
                 ![s].hostOps = @ \cup {HostOp("terminus_render", "renderer")},
                 ![s].need = <<TRUE>>, ![s].renders = @ + 1]
       ELSE /\ log' = [log EXCEPT ![s].need = <<FALSE>>]
            /\ UNCHANGED <<obj, screen>>
    /\ UNCHANGED <<terminals, pty, host, mainQ, calc>>

\* if done[0] or not view_is_attached(): break
RendererCheck(s) ==
    /\ thr[s].renderer = "check"
    /\ log' = [log EXCEPT ![s].access = @ \cup {Access(s, "renderer", "done")},
                          ![s].need = <<>>, ![s].renders = 0]
    /\ IF thr[s].done
       THEN thr' = [thr EXCEPT ![s].renderer = "flush"]
       ELSE LET att == Responsive(thr[s].attached_due, thr[s].attached_value,
                                  ViewIsAttached(s))
            IN  thr' = [thr EXCEPT ![s].attached_value = att,
                                   ![s].attached_due = FALSE,
                                   ![s].renderer = IF att THEN "feed" ELSE "flush"]
    /\ UNCHANGED <<terminals, obj, pty, screen, host, mainQ, calc>>

\* done[0] = True, after the loop and the last feed_data()
RendererSetDone(s) ==
    /\ thr[s].renderer = "set_done"
    /\ thr' = [thr EXCEPT ![s].done = TRUE, ![s].renderer = "schedule"]
    /\ log' = [log EXCEPT ![s].access = @ \cup {Access(s, "renderer", "done")}]
    /\ UNCHANGED <<terminals, obj, pty, screen, host, mainQ, calc>>

\* sublime.set_timeout(lambda: self.cleanup())
RendererSchedule(s) ==
    /\ thr[s].renderer = "schedule"
    /\ thr' = [thr EXCEPT ![s].renderer = "finished"]
    /\ mainQ' = mainQ \cup {s}
    /\ log' = [log EXCEPT ![s].scheduled = @ + 1]
    /\ UNCHANGED <<terminals, obj, pty, screen, host, calc>>

\* ---------------------------------------------------------- specification
\* The steps of the reader that do not wait for output of the process.
Reader(s) ==
    \/ ReaderEOF(s) \/ ReaderLock(s) \/ ReaderAppend(s)
    \/ ReaderCheck(s) \/ ReaderSetDone(s)

Renderer(s) ==
    \/ RendererLock(s) \/ FeedData(s) \/ RendererResize(s) \/ RendererRender(s)
    \/ RendererCheck(s) \/ RendererSetDone(s) \/ RendererSchedule(s)

\* One Terminal on a laid out view, followed step by step.
Next ==
    \/ \E s \in PipeSessions, v \in Views : Construct(s, v)
    \/ \E s \in Sessions, pn \in PanelNames : Open(s, None, pn)
    \/ \E s \in Sessions : Close(s)
    \/ \E s \in Sessions : CloseUnopened(s)
    \/ \E s \in Sessions : Cleanup(s)
    \/ \E s \in Sessions : Del(s)
    \/ \E v \in Views : Detach(v)
    \/ \E s \in Sessions, code \in ExitCodes : ProcExit(s, code)
    \/ \E s \in Sessions : AttachedDue(s)
    \/ \E s \in Sessions, k \in PipeKinds : ReaderRead(s, k)
    \/ \E s \in Sessions : Reader(s)
    \/ \E s \in Sessions : Renderer(s)

Spec == Init /\ [][Next]_vars

\* Both threads are scheduled, a read of an exited process returns, the main
\* thread runs the tasks queued for it, and time passes.  Nothing forces the
\* process to write or to exit, nor the user to act.
Fairness ==
    \A s \in Sessions :
        /\ WF_vars(Reader(s))
        /\ WF_vars(Renderer(s))
        /\ WF_vars(Cleanup(s))
        /\ WF_vars(AttachedDue(s))

FairSpec == Spec /\ Fairness

\* Several Terminals of silent processes on views that stay attached, for the
\* registry.
InitReg == InitWith(0, {LaidOut})

NextReg ==
    \/ \E s \in Sessions, v \in Views : Construct(s, v)
    \/ \E s \in Sessions, tag \in Tags : Open(s, tag, "")
    \/ \E s \in Sessions : Close(s)
    \/ \E s \in Sessions : CloseUnopened(s)
    \/ \E s \in Sessions : Cleanup(s)
    \/ \E s \in Sessions : Del(s)
    \/ \E s \in Sessions : ProcExit(s, 0)
    \/ \E s \in Sessions : ReaderEOF(s) \/ ReaderSetDone(s)
    \/ \E s \in Sessions : Renderer(s)

SpecReg == InitReg /\ [][NextReg]_vars

\* One Terminal of a process writing text, on a view whose layout changes and
\* may not be ready (no line height yet) when open() runs.
InitResize == InitWith(MaxReads, Layouts)

NextResize ==
    \/ \E s \in PipeSessions, v \in Views : Construct(s, v)
    \/ \E s \in Sessions : Open(s, None, "")
    \/ \E s \in Sessions : Cleanup(s)
    \/ \E v \in Views, l \in Layouts : Relayout(v, l)
    \/ \E s \in Sessions : ProcExit(s, 0)
    \/ \E s \in Sessions : ResizedDue(s)
    \/ \E s \in Sessions : ReaderRead(s, "text")
    \/ \E s \in Sessions : Reader(s)
    \/ \E s \in Sessions : Renderer(s)

SpecResize == InitResize /\ [][NextResize]_vars

\* One Terminal of a process writing image directives of every kind, whose
\* images the host may dismiss.
ImageKinds == {"img_noinline", "img_badb64", "img_badhdr", "img_ok"}
Links == 1..MaxReads

NextImage ==
    \/ \E s \in PipeSessions, v \in Views : Construct(s, v)
    \/ \E s \in Sessions : Open(s, None, "")
    \/ \E s \in Sessions : Cleanup(s)
    \/ \E s \in Sessions : ProcExit(s, 0)
    \/ \E s \in Sessions, k \in Links, link \in Links : callback(s, k, link)
    \/ \E s \in Sessions, k \in ImageKinds \cup {"text"} : ReaderRead(s, k)
    \/ \E s \in Sessions : Reader(s)
    \/ \E s \in Sessions : Renderer(s)

SpecImage == Init /\ [][NextImage]_vars

\* The metrics of a view the user made one row high and three cells wide.
Narrowed == [pw |-> 27, ph |-> 18, lh |-> 18, ew |-> 9]

\* One Terminal of a process writing text and images, on a view the user
\* narrows, with keys and strings sent to the process.
NextThreads ==
    \/ \E s \in PipeSessions, v \in Views : Construct(s, v)
    \/ \E s \in Sessions : Open(s, None, "")
    \/ \E s \in Sessions : Cleanup(s)
    \/ \E s \in Sessions : send_key(s)
    \/ \E s \in Sessions : send_string(s)
    \/ \E s \in Sessions :
          obj[s].life = "opened" /\ Relayout(obj[s].view, Narrowed)
    \/ \E s \in Sessions : ProcExit(s, 0)
    \/ \E s \in Sessions : ResizedDue(s)
    \/ \E s \in Sessions, k \in {"text", "img_ok"} : ReaderRead(s, k)
    \/ \E s \in Sessions : Reader(s)
    \/ \E s \in Sessions : Renderer(s)

SpecThreads == Init /\ [][NextThreads]_vars

\* One Terminal of a process writing text and escapes that show or hide the
\* cursor.
NextRender ==
    \/ \E s \in PipeSessions, v \in Views : Construct(s, v)
    \/ \E s \in Sessions : Open(s, None, "")
    \/ \E s \in Sessions : Cleanup(s)
    \/ \E s \in Sessions : ProcExit(s, 0)
    \/ \E s \in Sessions, k \in {"text", "toggle"} : ReaderRead(s, k)
    \/ \E s \in Sessions : Reader(s)
    \/ \E s \in Sessions : Renderer(s)

SpecRender == Init /\ [][NextRender]_vars

\* A call of view_size on a view of any metrics.
InitGeom ==
    /\ InitTerminals(0, {LaidOut})
    /\ calc \in [fn : {"view_size"}, arg : Metrics, done : {FALSE}]

NextGeom == ViewSizeCall

SpecGeom == InitGeom /\ [][NextGeom]_vars

\* A call of image_resize with any arguments.
InitSizer ==
    /\ InitTerminals(0, {LaidOut})
    /\ calc \in [fn : {"image_resize"}, done : {FALSE},
                 arg : [img_size : ImgSizes, width : SizeArgs, height : SizeArgs,
                        em_width : {1, 9}, max_width : MaxWidths,
                        preserve_ratio : PreserveValues]]

NextSizer == ImageResizeCall

SpecSizer == InitSizer /\ [][NextSizer]_vars

\* ------------------------------------------------------------- properties
\* What the reader appended and no feed call has been given yet.
Pending(s) ==
    SubSeq(log[s].appended, Len(Flatten(log[s].fed)) + 1, Len(log[s].appended))

\* A step of feed_data's with block of session s.
Drain(s) ==
    /\ thr[s].renderer \in {"feeding", "flushing"}
    /\ thr'[s].renderer \notin {"feeding", "flushing"}

\* C1: the chunks given to stream.feed so far, concatenated, are a prefix of
\* the chunks process.read has returned so far: nothing is fed twice, out of
\* order, or without having been read.
C1_FedIsPrefixOfRead ==
    \A s \in Sessions : IsPrefix(Flatten(log[s].fed), log[s].read)

C1_Witness ==
    \E s \in Sessions : Len(log[s].fed) = 2 /\ Flatten(log[s].fed) = log[s].read

\* C2: a drain of a buffer holding the reads s1..sN appended since the last
\* drain makes exactly one feed call, with s1..sN in order, and leaves the
\* buffer empty; a drain of an empty buffer makes no feed call.
C2_DrainFeedsOnceAndEmpties ==
    [][\A s \in Sessions :
         Drain(s) =>
           /\ thr[s].data = Pending(s)
           /\ thr'[s].data = <<>>
           /\ log'[s].fed = IF Pending(s) = <<>> THEN log[s].fed
                            ELSE Append(log[s].fed, Pending(s))]_vars

\* C3: every access to data[0] and to done[0] is made by a thread that holds
\* the lock.
C3_SharedStateUnderLock ==
    \A s \in Sessions : \A a \in log[s].access : a.locked

\* C4: every operation that changes the host surface is executed by the main
\* thread, never by the reader or the renderer thread.
C4_HostOpsOnMainThread ==
    \A s \in Sessions : \A o \in log[s].hostOps : o.by = "main"

\* The read of the process signalled end of stream, or the view is detached
\* (a detached view stays detached).
MustEnd(s) ==
    /\ thr[s].renderer # "none"
    /\ log[s].eof \/ ~host[obj[s].view].attached

\* C5: once the read has signalled end of stream or the view is detached, the
\* renderer eventually leaves its loop, sets done and schedules cleanup on
\* the main thread; cleanup is scheduled at most once.
C5_EndLeadsToCleanupScheduled ==
    /\ \A s \in Sessions :
         MustEnd(s) ~> (thr[s].done /\ thr[s].renderer = "finished"
                        /\ log[s].scheduled = 1)
    /\ [](\A s \in Sessions : log[s].scheduled <= 1)

\* C6: once the renderer has set done and cleanup has run, the reader
\* eventually returns.
C6_ReaderEndsAfterCleanup ==
    \A s \in Sessions :
        (log[s].cleaned /\ thr[s].done) ~> (thr[s].reader = "finished")

\* C7: whenever a session has been destroyed through close() (by the host or
\* by cleanup()), terminate has been invoked on its process with force.
C7_ForcedTerminateOnClose ==
    \A s \in Sessions : log[s].closed => TRUE \in log[s].terminate

\* C8: after close() of a session has returned, from_id with its view id and
\* from_tag with its tag do not return it; a second close() of the session
\* leaves the registry unchanged.
C8_ClosedIsUnregistered ==
    /\ [](\A s \in Sessions :
            log[s].closed => /\ from_id(obj[s].view) # s
                             /\ from_tag(obj[s].tag) # s)
    /\ [][\A s \in Sessions :
            (log[s].closed /\ (Close(s) \/ Cleanup(s))) => terminals' = terminals]_vars

\* C9: a session is registered exactly from its open() until its close(): a
\* registered session has been opened (it has a process, a screen and a tag),
\* a session that was constructed and not opened is not registered.
C9_RegisteredIffOpen ==
    \A s \in Sessions :
        /\ \A v \in Views :
             from_id(v) = s => /\ obj[s].life = "opened"
                               /\ pty[s].state # "none"
                               /\ screen[s].lines > 0
        /\ obj[s].life = "constructed" => \A v \in Views : from_id(v) # s

\* C10: after cleanup() the view is read-only and shows the exit status; the
\* panel was destroyed, or the view focused and closed, only if the exit
\* status shown is 0.
C10_CleanupRemovesOnlyOnZero ==
    \A s \in Sessions :
        log[s].cleaned =>
            LET h == host[obj[s].view]
                removing == {"destroy_output_panel", "focus_view", "close"}
            IN  /\ h.read_only
                /\ h.message # <<>>
                /\ HostOp("append", "main") \in log[s].hostOps
                /\ h.message # <<0>> =>
                     /\ ~h.removed
                     /\ \A o \in log[s].hostOps : o.op \notin removing
                /\ \A o \in log[s].hostOps :
                     /\ o.op = "destroy_output_panel" => obj[s].panel_name # ""
                     /\ o.op \in {"focus_view", "close"} => obj[s].panel_name = ""

C10_Witness ==
    \E s \in Sessions :
        /\ log[s].cleaned
        /\ host[obj[s].view].removed
        /\ host[obj[s].view].message = <<0>>

\* C11: the size (0, 0) of a view that is not laid out is never used: open()
\* does not create the process and the screen with it, and the renderer does
\* not resize the process or the screen to it.
C11_SentinelSizeNeverApplied ==
    \A s \in Sessions :
        obj[s].life = "opened" =>
            /\ pty[s].winsize # <<0, 0>>
            /\ <<screen[s].lines, screen[s].columns>> # <<0, 0>>

\* The image directives with malformed data: base-64 text that cannot be
\* decoded, or a file whose header gives no size.
Malformed == {"img_badb64", "img_badhdr"}

\* C12: an image directive with malformed data creates no phantom and the
\* session goes on: the renderer thread is not ended by it and the chunk
\* leaves the buffer, so that it is not fed again and later output is fed.
C12_MalformedImageIsSkipped ==
    \A s \in Sessions :
        (\E i \in 1..Len(log[s].fed) :
            \E j \in 1..Len(log[s].fed[i]) : log[s].fed[i][j].kind \in Malformed)
        => /\ thr[s].renderer # "dead"
           /\ \A j \in 1..Len(thr[s].data) :
                \A i \in 1..Len(Flatten(log[s].fed)) :
                    thr[s].data[j] # Flatten(log[s].fed)[i]

\* floor(a / b) for naturals a and b > 0, by its defining inequalities.
Floor(a, b) == CHOOSE q \in 0..a : q * b <= a /\ a < (q + 1) * b

AtLeastOne(n) == IF n >= 1 THEN n ELSE 1

\* C13: view_size returns (0, 0) exactly when the line height or the em width
\* is 0, and otherwise rows = max(1, floor(height / line height)) and
\* columns = max(1, floor(width / em width) - 3); a viewport of 800 x 600 with
\* line height 18 and em width 9 gives 33 rows and 85 columns.
C13_ViewSizeIsReference ==
    (calc.fn = "view_size" /\ calc.done) =>
        LET l == calc.arg
        IN  /\ (calc.res = <<0, 0>>) <=> (l.lh = 0 \/ l.ew = 0)
            /\ (l.lh # 0 /\ l.ew # 0) =>
                 calc.res = << AtLeastOne(Floor(l.ph, l.lh)),
                               AtLeastOne(Floor(l.pw, l.ew) - 3) >>
            /\ l = [pw |-> 800, ph |-> 600, lh |-> 18, ew |-> 9] =>
                 calc.res = <<33, 85>>

C13_Witness ==
    /\ calc.fn = "view_size"
    /\ calc.done
    /\ calc.arg = [pw |-> 800, ph |-> 600, lh |-> 18, ew |-> 9]
    /\ calc.res = <<33, 85>>

\* floor(sqrt(area / (nw / nh))), by its defining inequalities; it is at most
\* the larger of area and nh.
FloorRoot(area, nw, nh) ==
    CHOOSE h \in 0..(IF area > nh THEN area ELSE nh) :
        h * h * nw <= area * nh /\ area * nh < (h + 1) * (h + 1) * nw

\* A value Python takes as true.
Truthy(p) == p \notin {"0", "''"}

\* Width or height asked for: natural when absent, cells times the em width,
\* or the percentage of the natural dimension.
Asked(arg, natural, em_width) ==
    IF arg.kind = "absent" THEN natural
    ELSE IF arg.kind = "cells" THEN arg.n * em_width
    ELSE Floor(natural * arg.n, 100)

\* The reference result for the arguments a, the ratio step taken or not;
\* Undefined when the reference divides by a height of 0.
Undefined == <<-2, -2>>

ReferenceSize(a, normalise) ==
    LET w == Asked(a.width, a.img_size[1], a.em_width)
        h == Asked(a.height, a.img_size[2], a.em_width)
        nh == IF normalise THEN FloorRoot(w * h, a.img_size[1], a.img_size[2])
              ELSE h
    IN  IF nh = 0 /\ normalise THEN Undefined
        ELSE LET nw == IF normalise THEN Floor(w * h, nh) ELSE w
             IN  IF nw > a.max_width
                 THEN <<a.max_width, Floor(nh * a.max_width, nw)>>
                 ELSE <<nw, nh>>

Example == [img_size |-> <<640, 480>>, width |-> [kind |-> "percent", n |-> 50],
            height |-> Absent, em_width |-> 9, max_width |-> 10000,
            preserve_ratio |-> "True"]

\* C14, as claimed: image_resize returns the reference size, the ratio step
\* taken for every preserve_ratio Python takes as true; the width returned is
\* at most max_width; natural (640, 480), width 50%, no height, preserve_ratio
\* True and max_width 10000 give (451, 340).
C14_RatioForEveryTruthyValue ==
    (calc.fn = "image_resize" /\ calc.done) =>
        LET ref == ReferenceSize(calc.arg, Truthy(calc.arg.preserve_ratio))
        IN  /\ ref # Undefined => calc.res = ref /\ calc.res[1] <= calc.arg.max_width
            /\ calc.arg = Example => calc.res = <<451, 340>>

\* C14, amended: image_resize returns the reference size, the ratio step taken
\* exactly when preserve_ratio is 1 (the default; True equals 1) or "true" and
\* skipped for every other value; it raises ZeroDivisionError when the ratio
\* step gives the height 0; the width returned is at most max_width; natural
\* (640, 480), width 50%, no height, preserve_ratio True and max_width 10000
\* give (453, 339).
C14_ImageResizeIsReference ==
    (calc.fn = "image_resize" /\ calc.done) =>
        LET ref == ReferenceSize(calc.arg,
                                 calc.arg.preserve_ratio \in {"1", "True", "'true'"})
        IN  /\ ref # Undefined => calc.res = ref /\ calc.res[1] <= calc.arg.max_width
            /\ ref = Undefined => calc.res = ZeroDivisionError
            /\ calc.arg = Example => calc.res = <<453, 339>>

C14_Witness ==
    /\ calc.fn = "image_resize"
    /\ calc.done
    /\ calc.arg = Example
    /\ calc.res = <<453, 339>>

\* The step of a renderer iteration that calls _need_to_render().
NeedToRenderCalled(s) == thr[s].renderer = "render" /\ thr'[s].renderer = "check"

\* C15: _need_to_render() returns true exactly when the screen is dirty, the
\* cursor column or row differs from the cached one, or the hidden flag
\* differs from the cached one; after the call, whatever it returned, the
\* cached cursor and hidden flag are those of the screen; the iteration
\* issues one render call when it returned true and none otherwise.
C15_RenderIffChanged ==
    [][\A s \in Sessions :
         NeedToRenderCalled(s) =>
           /\ log'[s].need =
                << screen[s].dirty
                   \/ <<screen[s].x, screen[s].y>> # obj[s].cached_cursor
                   \/ screen[s].hidden # obj[s].cached_cursor_is_hidden >>
           /\ obj'[s].cached_cursor = <<screen'[s].x, screen'[s].y>>
           /\ obj'[s].cached_cursor_is_hidden = screen'[s].hidden
           /\ log[s].renders = 0
           /\ log'[s].renders = IF log'[s].need = <<TRUE>> THEN 1 ELSE 0]_vars

\* A render issued for a batch that only showed or hid the cursor.
C15_Witness ==
    \E s \in Sessions :
        /\ thr[s].renderer = "check"
        /\ log[s].renders = 1
        /\ Len(log[s].fed) = 2
        /\ \A j \in 1..Len(log[s].fed[2]) : log[s].fed[2][j].kind = "toggle"

\* The number of images of the batch d that show_image registers: those with
\* inline set and a size, up to the first call an exception leaves.
RECURSIVE Registered(_)
Registered(d) ==
    IF d = <<>> \/ Head(d).kind = "img_badb64" THEN 0
    ELSE (IF Head(d).kind = "img_ok" THEN 1 ELSE 0) + Registered(Tail(d))

\* C16: a call of show_image that returns without a phantom (inline not set,
\* or no size found) leaves image_count, the phantoms and the cursor as they
\* were; every phantom registered comes with one increment of image_count and
\* one advance of the cursor by one line.
C16_OverlayCounterCursorTogether ==
    [][\A s \in Sessions :
         Drain(s) =>
           LET d == thr[s].data
               v == obj[s].view
               n == Registered(d)
           IN  /\ (\A j \in 1..Len(d) : d[j].kind \in {"img_noinline", "img_badhdr"})
                  => /\ obj'[s].image_count = obj[s].image_count
                     /\ host'[v].phantoms = host[v].phantoms
                     /\ <<screen'[s].x, screen'[s].y>> = <<screen[s].x, screen[s].y>>
               /\ host[v].phantoms \subseteq host'[v].phantoms
               /\ Cardinality(host'[v].phantoms \ host[v].phantoms) = n
               /\ obj'[s].image_count = obj[s].image_count + n
               /\ screen'[s].y = screen[s].y + n]_vars

\* An image registered after one without a size: one phantom, counter 1, the
\* cursor one line down.
C16_Witness ==
    \E s \in Sessions :
        /\ Len(log[s].read) = 2
        /\ log[s].read[1].kind = "img_badhdr"
        /\ log[s].read[2].kind = "img_ok"
        /\ Flatten(log[s].fed) = log[s].read
        /\ obj[s].image_count = 1
        /\ host[obj[s].view].phantoms = {1}
        /\ screen[s].y = 1

\* C17: image_count never decreases; every phantom added gets an identifier
\* no earlier phantom had, the value of image_count after its increment; the
\* callback registered with phantom k, when the host calls it, removes
\* phantom k and no other.
C17_CallbackRemovesItsOverlay ==
    [][\A s \in Sessions :
         LET v == obj[s].view
         IN  obj[s].life = "opened" =>
               /\ obj'[s].image_count >= obj[s].image_count
               /\ (host'[v].phantoms \ host[v].phantoms) \subseteq
                     (obj[s].image_count + 1)..obj'[s].image_count
               /\ \A k \in Links, link \in Links :
                     callback(s, k, link) =>
                        host'[v].phantoms = host[v].phantoms \ {k}]_vars

\* The screen of s is changed by the step otherwise than by the render
\* command clearing its dirty marks: bytes fed, a resize, the cursor moved.
ScreenMutated(s) ==
    \/ [screen[s] EXCEPT !.dirty = FALSE] # [screen'[s] EXCEPT !.dirty = FALSE]
    \/ ~screen[s].dirty /\ screen'[s].dirty

\* The step is one of the renderer thread, of the reader thread of s.
RendererStep(s) == thr[s].renderer # thr'[s].renderer /\ thr[s].reader = thr'[s].reader
ReaderStep(s) == thr[s].reader # thr'[s].reader /\ thr[s].renderer = thr'[s].renderer

\* C18: after open(), the screen is fed, resized and has its cursor advanced
\* for an image by the renderer thread only, never by the reader thread or
\* by send_key, send_string or cleanup on the main thread; the buffer is
\* drained and cleared by the renderer only and extended by the reader only.
C18_ScreenMutatedByRendererOnly ==
    [][\A s \in Sessions :
         obj[s].life = "opened" =>
           /\ ScreenMutated(s) => RendererStep(s)
           /\ Len(thr'[s].data) > Len(thr[s].data) => ReaderStep(s)
           /\ (thr'[s].data # thr[s].data /\ Len(thr'[s].data) <= Len(thr[s].data))
                 => RendererStep(s)]_vars

\* Fed, resized, an image shown, a string sent and cleaned up.
C18_Witness ==
    \E s \in Sessions :
        /\ log[s].cleaned
        /\ pty[s].written
        /\ obj[s].image_count = 1
        /\ screen[s].y = 1
        /\ screen[s].x = 1
        /\ screen[s].lines # OpenSize(LaidOut)[1]
        /\ Flatten(log[s].fed) = log[s].read

\* C19: no output is lost: once the reader loop and the renderer loop have
\* both ended, the buffer is empty and what was fed is all that was read,
\* also when the renderer ends first and the read the reader waits in
\* returns data afterwards.
C19_NoOutputLost ==
    \A s \in Sessions :
        (thr[s].reader = "finished" /\ thr[s].renderer = "finished") =>
            /\ thr[s].data = <<>>
            /\ Flatten(log[s].fed) = log[s].read

\* C20: close() and cleanup() of a Terminal remove no registry entry but its
\* own: when a second Terminal was constructed on the same view and replaced
\* it in the registry, the entry of the second stays, so that from_id finds
\* every Terminal that is registered and not closed.
C20_CloseRemovesOwnEntryOnly ==
    [][\A s \in Sessions :
         (Close(s) \/ Cleanup(s) \/ CloseUnopened(s)) =>
            \A v \in Views :
                from_id(v) # s => terminals'[v] = terminals[v]]_vars
====
